---- MODULE Spec2Model ----
(***************************************************************************)
(* The native function bridge of hlua (hlua/src/functions_write.rs):       *)
(* Function::push_to_lua turns a wrapped host closure into a Lua C closure *)
(* whose upvalue is a userdata block holding the captured state, and       *)
(* wrapper is the trampoline the VM calls.  The Lua VM itself (stack,      *)
(* userdata blocks, metatables, finalizers, lua_close) and the marshaling  *)
(* of primitive values and tuples are the environment of that code.        *)
(***************************************************************************)
EXTENDS Integers, Sequences, FiniteSets, TLC

VARIABLES
    vm,        \* the Lua context of the test's `Lua::new()`: "open", "closed",
               \* "aborted" (the process was aborted) or "panicked" (a panic
               \* unwound out of the VM's call)
    heap,      \* the VM's userdata blocks, by object id (position)
    globals,   \* the script's global variables holding registered callables
    typemt,    \* the metatables shared by all values of one type: of strings, of nil
    regs,      \* the closures registered so far, in order: the r-th push_to_lua moved regs[r]
    drops,     \* per captured state: how many times its teardown (Drop) ran
    push,      \* the push_to_lua whose values are still on the stack: the stack
               \* before and after it, the metatables the values on it had
               \* before, and the ffi calls it made
    frame      \* the trampoline invocation in progress, or the last one finished

vars == <<vm, heap, globals, typemt, regs, drops, push, frame>>

(***************************************************************************)
(* Bounds of the model.                                                    *)
(***************************************************************************)
MaxRegs == 1      \* registrations per behaviour
MaxCalls == 2     \* calls that run the body of one closure with captured state
MaxExtra == 1     \* a call passes at most arity + MaxExtra arguments

\* function0 .. function10: the arities impl_function! is instantiated for.
MaxArity == 10

Names == {"f"}

(***************************************************************************)
(* Lua values, as they sit on the VM stack.                                *)
(*   ty: the Lua type; n: the integer payload (integer), or the            *)
(*   registration whose destructor a cfunction / metatable carries;        *)
(*   s: the string payload, or the name of the host closure type;          *)
(*   o: the userdata block (userdata), or the upvalue block (function);    *)
(*   nup: number of upvalues (function); k: for a function, the arity of   *)
(*   the Function type its wrapper is monomorphized for.                   *)
(***************************************************************************)
LVal(ty, n, s, o, nup) ==
    [ty |-> ty, n |-> n, s |-> s, o |-> o, nup |-> nup, k |-> 0]
LuaNil == LVal("nil", 0, "", 0, 0)
LInt(n) == LVal("integer", n, "", 0, 0)
LStr(s) == LVal("string", 0, s, 0, 0)
LUserdata(o) == LVal("userdata", 0, "", o, 0)
\* a table whose only possible field is "__gc"; n = 0: empty table
LTable(gc) == LVal("table", gc, "", 0, 0)
\* the C function closure_destructor_wrapper::<Z>, Z the closure of registration r
LDestructor(r) == LVal("cfunction", r, "closure_destructor_wrapper", 0, 0)

(***************************************************************************)
(* Host (Rust) values: what closures take and return.                      *)
(***************************************************************************)
HUnit == [h |-> "unit"]
HNil == [h |-> "LuaNil"]
HInt(n) == [h |-> "i32", n |-> n]
HStr(s) == [h |-> "String", s |-> s]
HTuple(es) == [h |-> "tuple", es |-> es]
HOk(v) == [h |-> "Ok", v |-> v]
HErr(e) == [h |-> "Err", e |-> e]

(***************************************************************************)
(* The host closures registered by the tests and the documentation.        *)
(*   params: the parameter types; size: mem::size_of::<Z>();               *)
(*   drop: mem::needs_drop::<Z>().                                         *)
(***************************************************************************)
Closure(name, params, size, drop) ==
    [name |-> name, params |-> params, size |-> size, drop |-> drop]

\* fn of arity k over i32 (ret5, plus_one, add, ...): captures nothing
Sum(k) == Closure("sum", [i \in 1..k |-> "i32"], 0, FALSE)
\* || a += 1, capturing a counter (closures_extern_access)
Inc == Closure("inc", <<>>, 8, FALSE)
\* move || println!("{:?}", foo), foo an Arc (closures_drop_env)
PrintFoo == Closure("print_foo", <<>>, 8, TRUE)
\* move || { let _ = &guard; }, guard a zero-sized value with a Drop impl
Guard == Closure("guard", <<>>, 0, TRUE)
\* always_fails (return_result)
AlwaysFails == Closure("always_fails", <<>>, 0, FALSE)
\* |a| if a % 2 == 0 { Ok(a / 2) } else { Err(7 * a) }: an error that is a number
Checked == Closure("checked", <<"i32">>, 0, FALSE)
\* || (12, 24, 48) (doc: Multiple return values)
Values == Closure("values", <<>>, 0, FALSE)
\* |n: i32, s: String| (s, n + 1)
Pair == Closure("pair", <<"i32", "String">>, 0, FALSE)

\* || Opaque, a value of a type whose Push can fail
Unencodable == Closure("unencodable", <<>>, 0, FALSE)

\* |a| -> Result<(i32, i32), String> { Ok((a / 2, a % 2)) }
DivMod == Closure("divmod", <<"i32">>, 0, FALSE)
\* || -> Result<Opaque, String> { Ok(Opaque) }
TryOpaque == Closure("try_opaque", <<>>, 0, FALSE)

Closures ==
    {Sum(k) : k \in 0..MaxArity}
        \cup {Inc, PrintFoo, Guard, AlwaysFails, Checked, Values, Pair,
              Unencodable, DivMod, TryOpaque}

RECURSIVE Weighted(_, _)
\* sum over i of i * args[i].n
Weighted(args, i) ==
    IF i = 0 THEN 0 ELSE i * args[i].n + Weighted(args, i - 1)

\* The closure bodies: the value returned and the captured state left, from
\* the captured state found and the arguments.
ClosureBody(z, env, args) ==
    CASE z.name = "sum" -> [ret |-> HInt(5 + Weighted(args, Len(args))), env |-> env]
      [] z.name = "inc" -> [ret |-> HUnit, env |-> env + 1]
      [] z.name = "print_foo" -> [ret |-> HUnit, env |-> env]
      [] z.name = "guard" -> [ret |-> HUnit, env |-> env]
      [] z.name = "always_fails" ->
            [ret |-> HErr(HStr("oops, problem")), env |-> env]
      [] z.name = "checked" ->
            [ret |-> IF args[1].n % 2 = 0
                        THEN HOk(HInt(args[1].n \div 2))
                        ELSE HErr(HInt(7 * args[1].n)),
             env |-> env]
      [] z.name = "values" ->
            [ret |-> HTuple(<<HInt(12), HInt(24), HInt(48)>>), env |-> env]
      [] z.name = "pair" ->
            [ret |-> HTuple(<<args[2], HInt(args[1].n + 1)>>), env |-> env]
      [] z.name = "unencodable" -> [ret |-> [h |-> "Opaque"], env |-> env]
      [] z.name = "divmod" ->
            [ret |-> HOk(HTuple(<<HInt(args[1].n \div 2), HInt(args[1].n % 2)>>)),
             env |-> env]
      [] z.name = "try_opaque" -> [ret |-> HOk([h |-> "Opaque"]), env |-> env]

(***************************************************************************)
(* functionN (impl_function!): wraps a closure of arity N.                 *)
(***************************************************************************)
functionN(f) == [function |-> f, marker |-> f.params]

\* mem::size_of::<Function<Z, P, R>>(): the marker is PhantomData
SizeOfFunction(T) == T.function.size

(***************************************************************************)
(* The VM's heap of userdata blocks.                                       *)
(*   size: bytes asked of lua_newuserdata; cs: the registration whose     *)
(*   captured state was written into the block (0: none, a userdata of    *)
(*   another kind); env: the captured state's value; mt: the block's      *)
(*   metatable (0: none, r > 0: its __gc is closure_destructor_wrapper of *)
(*   registration r's closure type, -1: the metatable of another kind of  *)
(*   userdata); st: "live", "finalized" (__gc has run) or "freed".        *)
(***************************************************************************)
Block(size, cs, env, mt, st) ==
    [size |-> size, cs |-> cs, env |-> env, mt |-> mt, st |-> st]

OwnMt == -1

\* The state the ffi calls act on, and a log of the calls made.
\* ub: an ffi call was given an index that names no stack slot.
LuaState(stack, hp, tmt, log) ==
    [stack |-> stack, heap |-> hp, typemt |-> tmt, log |-> log, ub |-> FALSE]

LogEntry(op, arg, tgt) == [op |-> op, arg |-> arg, tgt |-> tgt]

NoValue == LVal("none", 0, "", 0, 0)

\* The stack slot a (positive or negative) index names; 0 when it names none.
AbsIndex(stack, idx) ==
    LET a == IF idx > 0 THEN idx ELSE Len(stack) + 1 + idx
    IN  IF idx # 0 /\ a \in 1..Len(stack) THEN a ELSE 0

Pop(stack, n) == SubSeq(stack, 1, Len(stack) - n)

lua_newuserdata(L, size) ==
    LET o == Len(L.heap) + 1
    IN  [L EXCEPT !.heap = Append(@, Block(size, 0, 0, 0, "live")),
                  !.stack = Append(@, LUserdata(o)),
                  !.log = Append(@, LogEntry("lua_newuserdata", size, LUserdata(o)))]

lua_newtable(L) ==
    [L EXCEPT !.stack = Append(@, LTable(0)),
              !.log = Append(@, LogEntry("lua_newtable", 0, NoValue))]

PushStr(L, s) == [L EXCEPT !.stack = Append(@, LStr(s))]

lua_pushcfunction(L, f) == [L EXCEPT !.stack = Append(@, f)]

\* t[k] = v with t at idx, k and v the two topmost values, which are popped.
lua_rawset(L, idx) ==
    LET n == Len(L.stack)
        k == L.stack[n - 1]
        v == L.stack[n]
        t == AbsIndex(L.stack, idx)
        set == [L.stack EXCEPT ![t] =
                    IF k = LStr("__gc") /\ v.ty = "cfunction" THEN LTable(v.n) ELSE @]
    IN  [L EXCEPT !.stack = Pop(set, 2)]

\* Pops a table and makes it the metatable of the value at idx: of that one
\* block for a userdata, of every value of its type for a string or nil.  An
\* index that names no slot of the stack is undefined behaviour: it is logged
\* with the target NoValue, and where the call does not crash it resolves to
\* the slot under the stack's base, which holds nil.
lua_setmetatable(L, idx) ==
    LET mt == L.stack[Len(L.stack)]
        a == AbsIndex(L.stack, idx)
        tgt == IF a = 0 THEN LuaNil ELSE L.stack[a]
    IN  [L EXCEPT !.stack = Pop(@, 1),
                  !.heap = IF tgt.ty = "userdata"
                              THEN [@ EXCEPT ![tgt.o].mt = mt.n] ELSE @,
                  !.typemt = IF tgt.ty \in {"string", "nil"}
                                THEN [@ EXCEPT ![tgt.ty] = mt.n] ELSE @,
                  !.ub = @ \/ a = 0,
                  !.log = Append(@, LogEntry("lua_setmetatable", mt.n,
                                             IF a = 0 THEN NoValue ELSE tgt))]

\* lua_getmetatable: the metatable of a value, its own for a userdata and its
\* type's for a string or nil (0: none).
MetatableOf(v, hp, tmt) ==
    CASE v.ty = "userdata" -> hp[v.o].mt
      [] v.ty \in {"string", "nil"} -> tmt[v.ty]
      [] OTHER -> 0

\* Pops n values, the new C closure's upvalues, and pushes the closure.
lua_pushcclosure(L, T, r, n) ==
    LET up == IF n = 1 THEN L.stack[Len(L.stack)] ELSE NoValue
        c == [LVal("function", r, T.function.name, up.o, n)
                 EXCEPT !.k = Len(T.marker)]
    IN  [L EXCEPT !.stack = Append(Pop(@, n), c),
                  !.log = Append(@, LogEntry("lua_pushcclosure", n, up))]

\* ptr::write(lua_data, self.function): the closure moves into block o.
PtrWrite(L, o, r) == [L EXCEPT !.heap[o].cs = r]

\* push_to_lua allocating a block whatever the closure's size.
push_to_lua_always_block(self, L, r) ==
    LET Z == self.function
        La == lua_newuserdata(L, Z.size)
        L1 == PtrWrite(La, Len(La.heap), r)
        L2 == IF Z.drop
                 THEN LET Lb == lua_newtable(L1)
                          Lc == PushStr(Lb, "__gc")
                          Ld == lua_pushcfunction(Lc, LDestructor(r))
                          Le == lua_rawset(Ld, -3)
                      IN  lua_setmetatable(Le, -2)
                 ELSE L1
        L3 == lua_pushcclosure(L2, self, r, 1)
    IN  [lua |-> L3, size |-> 1, dropped |-> FALSE]

(***************************************************************************)
(* Function::push_to_lua, for the r-th registration.  The result is the    *)
(* VM state left, the PushGuard's size, and whether self.function was      *)
(* still owned by `self` (not moved into a block) when `self` went out of  *)
(* scope, so that the closure was dropped on return.                       *)
(***************************************************************************)
push_to_lua(self, L, r) ==
    LET Z == self.function
        has_data == Z.size # 0
        L1 == IF has_data
                 THEN LET La == lua_newuserdata(L, Z.size)
                      IN  PtrWrite(La, Len(La.heap), r)
                 ELSE L
        L2 == IF Z.drop
                 THEN LET Lb == lua_newtable(L1)
                          Lc == PushStr(Lb, "__gc")
                          Ld == lua_pushcfunction(Lc, LDestructor(r))
                          Le == lua_rawset(Ld, -3)
                      IN  lua_setmetatable(Le, -2)
                 ELSE L1
        L3 == lua_pushcclosure(L2, self, r, IF has_data THEN 1 ELSE 0)
    IN  [lua |-> L3, size |-> 1, dropped |-> (~has_data /\ Z.drop)]

\* closure_destructor_wrapper::<T>: drop_in_place of the userdata at -1 as a T,
\* T the closure type of registration r.
closure_destructor_wrapper(dr, r) == [dr EXCEPT ![r] = @ + 1]

(***************************************************************************)
(* The trampoline invocation's frame.                                      *)
(***************************************************************************)
NoFrame ==
    [pc |-> "idle", fn |-> NoValue, T |-> functionN(Sum(0)), stk |-> <<>>,
     argc |-> 0, data |-> 0, args |-> <<>>, env0 |-> 0, ret |-> HUnit,
     nb |-> -1, reads |-> <<>>, trace |-> <<>>, upread |-> FALSE, start |-> 0]

InCall == frame.pc \in {"entry", "invoke", "encode"}

NoPush ==
    [r |-> 0, nm |-> "", T |-> functionN(Sum(0)), pre |-> <<>>, post |-> <<>>,
     log |-> <<>>, size |-> 0, dropped |-> FALSE, premt |-> <<>>]

(***************************************************************************)
(* The marshaling contract the bridge consumes: LuaRead of a parameter     *)
(* tuple and Push of a return value.                                       *)
(***************************************************************************)
\* One value of host type ty read from Lua value v.
ReadValue(v, ty) ==
    CASE ty = "i32" /\ v.ty = "integer" -> [ok |-> TRUE, val |-> HInt(v.n)]
      [] ty = "String" /\ v.ty = "string" -> [ok |-> TRUE, val |-> HStr(v.s)]
      [] OTHER -> [ok |-> FALSE, val |-> HUnit]

\* How many stack slots lie from index up to the top.
SlotsFrom(stack, index) ==
    CASE index < 0 -> -index
      [] index = 0 -> 0
      [] OTHER -> IF index > Len(stack) THEN 0 ELSE Len(stack) - index + 1

\* What lies in the slot just over the stack's top, which index 0 resolves
\* to: whatever an earlier use of the stack left there.
StaleValues == {LuaNil, LInt(7)}

RECURSIVE ReadSlots(_, _, _, _, _)
\* The tuple's elements from the j-th on, read one after the other from the
\* slots index + j - 1 on, up to the first that cannot be read.  reads: the
\* absolute positions of the slots read (0: index 0; over the top: no value).
ReadSlots(stack, index, P, j, top) ==
    IF j > Len(P) THEN [ok |-> TRUE, val |-> <<>>, reads |-> <<>>]
    ELSE LET i == index + j - 1
             pos == IF i < 0 THEN Len(stack) + 1 + i ELSE i
             v == IF i = 0 THEN top
                  ELSE IF pos \in 1..Len(stack) THEN stack[pos] ELSE NoValue
             one == ReadValue(v, P[j])
         IN  IF ~one.ok THEN [ok |-> FALSE, val |-> <<>>, reads |-> <<pos>>]
             ELSE LET rest == ReadSlots(stack, index, P, j + 1, top)
                  IN  [ok |-> rest.ok,
                       val |-> <<one.val>> \o rest.val,
                       reads |-> <<pos>> \o rest.reads]

\* LuaRead::lua_read_at_position for the tuple P: the Len(P) slots from
\* index on, each of its type; a wrong count, a wrong type or a slot that
\* cannot be read is a decode error.  top: the stale value over the stack's
\* top.
lua_read_at_position(stack, index, P, top) ==
    LET rd == ReadSlots(stack, index, P, 1, top)
    IN  [rd EXCEPT !.ok = @ /\ SlotsFrom(stack, index) = Len(P)]

Digit(d) ==
    CASE d = 0 -> "0" [] d = 1 -> "1" [] d = 2 -> "2" [] d = 3 -> "3"
      [] d = 4 -> "4" [] d = 5 -> "5" [] d = 6 -> "6" [] d = 7 -> "7"
      [] d = 8 -> "8" [] d = 9 -> "9"

RECURSIVE Decimal(_)
Decimal(n) == IF n < 10 THEN Digit(n) ELSE Decimal(n \div 10) \o Digit(n % 10)

\* Display::to_string of an error value: a &str as it is, an i32 in decimal.
to_string(e) ==
    IF e.h = "String" THEN e.s
    ELSE IF e.n < 0 THEN "-" \o Decimal(-e.n) ELSE Decimal(e.n)

RECURSIVE PushValue(_, _)
RECURSIVE PushTuple(_, _, _)
RECURSIVE PushResult(_, _)

\* Push for Result with the failure's message first and the nil second.
PushResultMessageFirst(stack, self) ==
    IF self.h = "Ok"
       THEN PushValue(stack, self.v)
       ELSE PushValue(stack, HTuple(<<HStr(to_string(self.e)), HNil>>))

\* Push for Result following a success's values with a nil.
PushResultOkThenNil(stack, self) ==
    IF self.h = "Ok"
       THEN PushValue(stack, HTuple(<<self.v, HNil>>))
       ELSE PushValue(stack, HTuple(<<HNil, HStr(to_string(self.e))>>))

\* Push for Result<T, E> inside a callback.
PushResult(stack, self) ==
    IF self.h = "Ok"
       THEN PushValue(stack, self.v)
       ELSE PushValue(stack, HTuple(<<HNil, HStr(to_string(self.e))>>))

\* Push for a tuple: its elements from the i-th on, left to right.
PushTuple(stack, es, i) ==
    IF i > Len(es) THEN [ok |-> TRUE, stack |-> stack, size |-> 0]
    ELSE LET a == PushValue(stack, es[i])
         IN  IF ~a.ok THEN a
             ELSE LET b == PushTuple(a.stack, es, i + 1)
                  IN  [b EXCEPT !.size = a.size + @]

\* Push::push_to_lua of a host value: the stack left and the PushGuard's size.
PushValue(stack, v) ==
    CASE v.h = "unit" -> [ok |-> TRUE, stack |-> stack, size |-> 0]
      [] v.h = "i32" -> [ok |-> TRUE, stack |-> Append(stack, LInt(v.n)), size |-> 1]
      [] v.h = "String" ->
            [ok |-> TRUE, stack |-> Append(stack, LStr(v.s)), size |-> 1]
      [] v.h = "LuaNil" -> [ok |-> TRUE, stack |-> Append(stack, LuaNil), size |-> 1]
      [] v.h = "tuple" -> PushTuple(stack, v.es, 1)
      [] v.h \in {"Ok", "Err"} -> PushResult(stack, v)
      [] OTHER -> [ok |-> FALSE, stack |-> stack, size |-> 0]

(***************************************************************************)
(* The trampoline, wrapper::<T, P, R>.                                     *)
(***************************************************************************)
\* NonNull::dangling(), and the null pointer lua_touserdata gives for no userdata
Dangling == -1

\* lua_touserdata(lua, lua_upvalueindex(1)) of the closure being called
UpvalueUserdata(fn) == IF fn.nup >= 1 THEN fn.o ELSE 0

\* call_mut with every parameter bound to the tuple's first element.
call_mut_first(self, env, params) ==
    ClosureBody(self.function, env,
                [j \in 1..Len(params) |->
                    IF params[j].h = params[1].h THEN params[1] ELSE params[j]])

\* FunctionExt::call_mut: the tuple is taken apart and the closure called.
call_mut(self, env, params) ==
    ClosureBody(self.function, env, [j \in 1..Len(params) |-> params[j]])

\* err_wrong_type returning the message as the call's one result.
err_wrong_type_returns(fr) ==
    [fr EXCEPT !.stk = Append(@, LStr("wrong parameter types for callback function")),
               !.nb = 1,
               !.pc = "returned",
               !.trace = Append(@, "Return")]

\* err_wrong_type: the message is pushed and lua_error unwinds the call.
err_wrong_type(fr) ==
    [fr EXCEPT !.stk = Append(@, LStr("wrong parameter types for callback function")),
               !.pc = "raised",
               !.trace = Append(@, "Fail")]

\* wrapper going on to the call, with default arguments, after a decode error.
wrapper_decode_lenient(fr, top) ==
    LET argc == Len(fr.stk)
        rd == lua_read_at_position(fr.stk, -argc, fr.T.marker, top)
    IN  [fr EXCEPT !.data = IF SizeOfFunction(fr.T) = 0
                               THEN Dangling ELSE UpvalueUserdata(fr.fn),
                   !.upread = SizeOfFunction(fr.T) # 0,
                   !.argc = argc, !.start = -argc, !.reads = rd.reads,
                   !.trace = @ \o <<"Entry", "DecodeArgs">>,
                   !.args = IF rd.ok THEN rd.val
                            ELSE [j \in 1..Len(fr.T.marker) |->
                                     IF fr.T.marker[j] = "i32"
                                        THEN HInt(0) ELSE HStr("")],
                   !.pc = "invoke"]

\* wrapper taking the captured state's address from the upvalue whatever the
\* size of T.
wrapper_decode_always_upvalue(fr, top) ==
    LET argc == Len(fr.stk)
        rd == lua_read_at_position(fr.stk, -argc, fr.T.marker, top)
        f1 == [fr EXCEPT !.data = UpvalueUserdata(fr.fn), !.upread = TRUE,
                         !.argc = argc, !.start = -argc, !.reads = rd.reads,
                         !.trace = @ \o <<"Entry", "DecodeArgs">>]
    IN  IF rd.ok THEN [f1 EXCEPT !.args = rd.val, !.pc = "invoke"]
        ELSE err_wrong_type(f1)

\* From entry to the end of argument decoding.  upread: lua_touserdata was
\* called on upvalue 1; start: the index given to lua_read_at_position.
wrapper_decode(fr, top) ==
    LET has_data == SizeOfFunction(fr.T) # 0
        data_raw == IF has_data THEN UpvalueUserdata(fr.fn) ELSE Dangling
        argc == Len(fr.stk)
        rd == lua_read_at_position(fr.stk, -argc, fr.T.marker, top)
        f1 == [fr EXCEPT !.data = data_raw, !.upread = has_data,
                         !.argc = argc, !.start = -argc, !.reads = rd.reads,
                         !.trace = @ \o <<"Entry", "DecodeArgs">>]
    IN  IF rd.ok THEN [f1 EXCEPT !.args = rd.val, !.pc = "invoke"]
        ELSE err_wrong_type(f1)

\* wrapper calling a copy of the captured state: what the call leaves is lost.
wrapper_invoke_copy(fr, env) ==
    LET res == call_mut(fr.T, env, fr.args)
    IN  [fr |-> [fr EXCEPT !.env0 = env, !.ret = res.ret, !.pc = "encode",
                           !.trace = Append(@, "Invoke")],
         env |-> env]

\* wrapper calling the closure again on the state the first call left.
wrapper_invoke_twice(fr, env) ==
    LET first == call_mut(fr.T, env, fr.args)
        res == call_mut(fr.T, first.env, fr.args)
    IN  [fr |-> [fr EXCEPT !.env0 = env, !.ret = res.ret, !.pc = "encode",
                           !.trace = @ \o <<"Invoke", "Invoke">>],
         env |-> res.env]

\* data.call_mut(args) on the captured state env; the state left is res.env.
wrapper_invoke(fr, env) ==
    LET res == call_mut(fr.T, env, fr.args)
    IN  [fr |-> [fr EXCEPT !.env0 = env, !.ret = res.ret, !.pc = "encode",
                           !.trace = Append(@, "Invoke")],
         env |-> res.env]

\* wrapper reporting one return value whatever was pushed.
wrapper_encode_one(fr) ==
    LET p == PushValue(fr.stk, fr.ret)
    IN  IF p.ok
           THEN [fr EXCEPT !.stk = p.stack, !.nb = 1, !.pc = "returned",
                           !.trace = @ \o <<"EncodeResult", "Return">>]
           ELSE [fr EXCEPT !.pc = "aborted", !.trace = Append(@, "EncodeResult")]

\* wrapper returning the height of the stack after the push.
wrapper_encode_gettop(fr) ==
    LET p == PushValue(fr.stk, fr.ret)
    IN  IF p.ok
           THEN [fr EXCEPT !.stk = p.stack, !.nb = Len(p.stack), !.pc = "returned",
                           !.trace = @ \o <<"EncodeResult", "Return">>]
           ELSE [fr EXCEPT !.pc = "aborted", !.trace = Append(@, "EncodeResult")]

\* wrapper raising the decode error's message when the push fails.
wrapper_encode_raises(fr) ==
    LET p == PushValue(fr.stk, fr.ret)
    IN  IF p.ok
           THEN [fr EXCEPT !.stk = p.stack, !.nb = p.size, !.pc = "returned",
                           !.trace = @ \o <<"EncodeResult", "Return">>]
           ELSE err_wrong_type([fr EXCEPT !.trace = Append(@, "EncodeResult")])

\* The return value is pushed and the number of values pushed returned; a
\* push that fails panics.
wrapper_encode(fr) ==
    LET p == PushValue(fr.stk, fr.ret)
    IN  IF p.ok
           THEN [fr EXCEPT !.stk = p.stack, !.nb = p.size, !.pc = "returned",
                           !.trace = @ \o <<"EncodeResult", "Return">>]
           ELSE [fr EXCEPT !.pc = "aborted", !.trace = Append(@, "EncodeResult")]

\* What the script receives from a call that returned: the topmost nb values.
Results(fr) == SubSeq(fr.stk, Len(fr.stk) - fr.nb + 1, Len(fr.stk))

\* A block is reachable through a global holding a closure whose upvalue it
\* is, or through the function slot of the call in progress.
Reachable(o) ==
    \/ \E nm \in Names :
          globals[nm].ty = "function" /\ globals[nm].nup = 1 /\ globals[nm].o = o
    \/ InCall /\ frame.fn.nup = 1 /\ frame.fn.o = o
    \/ \E i \in 1..Len(push.post) :
          \/ push.post[i].ty = "userdata" /\ push.post[i].o = o
          \/ push.post[i].ty = "function" /\ push.post[i].nup = 1
                /\ push.post[i].o = o

Init ==
    /\ vm = "open"
    /\ heap = <<>>
    /\ globals = [nm \in Names |-> LuaNil]
    /\ typemt = [ty \in {"string", "nil"} |-> 0]
    /\ regs = <<>>
    /\ drops = [r \in 1..MaxRegs |-> 0]
    /\ push = NoPush
    /\ frame = NoFrame

\* What the caller of push_to_lua has on the stack: nothing, the key string
\* (Lua::set, LuaTable::set), or a userdata of its own used as the key.
PreKinds == {"empty", "key", "udata"}

PreState(kind, nm) ==
    LET L == LuaState(<<>>, heap, typemt, <<>>)
    IN  CASE kind = "empty" -> L
          [] kind = "key" -> PushStr(L, nm)
          [] kind = "udata" ->
                [L EXCEPT !.heap = Append(@, Block(16, 0, 0, OwnMt, "live")),
                          !.stack = <<LUserdata(Len(L.heap) + 1)>>]

\* lua.set(name, functionN(closure)), up to the return of push_to_lua.  A push
\* that ran into undefined behaviour may have crashed the process instead.
Register(nm, z, kind, crash) ==
    /\ vm = "open"
    /\ frame.pc = "idle"
    /\ push.r = 0
    /\ Len(regs) < MaxRegs
    /\ LET r == Len(regs) + 1
           self == functionN(z)
           L0 == PreState(kind, nm)
           res == push_to_lua(self, L0, r)
           L1 == res.lua
       IN  /\ crash => L1.ub
           /\ vm' = IF crash THEN "aborted" ELSE vm
           /\ regs' = Append(regs, z)
           /\ heap' = L1.heap
           /\ typemt' = L1.typemt
           /\ drops' = IF res.dropped /\ ~crash
                          THEN [drops EXCEPT ![r] = @ + 1] ELSE drops
           /\ push' = IF crash THEN NoPush
                       ELSE [r |-> r, nm |-> nm, T |-> self, pre |-> L0.stack,
                             post |-> L1.stack, log |-> L1.log, size |-> res.size,
                             dropped |-> res.dropped,
                             premt |-> [i \in 1..Len(L0.stack) |->
                                          MetatableOf(L0.stack[i], L0.heap,
                                                      L0.typemt)]]
    /\ UNCHANGED <<globals, frame>>

\* The rest of lua.set: the value pushed is bound to the name and the stack
\* is left as it was found.
Bind ==
    /\ vm = "open"
    /\ push.r # 0
    /\ globals' = [globals EXCEPT ![push.nm] = push.post[Len(push.post)]]
    /\ push' = NoPush
    /\ UNCHANGED <<vm, heap, typemt, regs, drops, frame>>

\* The script drops a callable: name = nil.
Unset(nm) ==
    /\ vm = "open"
    /\ frame.pc = "idle"
    /\ push.r = 0
    /\ globals[nm] # LuaNil
    /\ globals' = [globals EXCEPT ![nm] = LuaNil]
    /\ UNCHANGED <<vm, heap, typemt, regs, drops, push, frame>>

\* The collector runs the __gc of an unreachable block.
Finalize(o) ==
    /\ vm = "open"
    /\ heap[o].st = "live"
    /\ heap[o].mt # 0
    /\ ~Reachable(o)
    /\ heap' = [heap EXCEPT ![o].st = "finalized"]
    /\ drops' = IF heap[o].mt > 0
                   THEN closure_destructor_wrapper(drops, heap[o].mt) ELSE drops
    /\ UNCHANGED <<vm, globals, typemt, regs, push, frame>>

\* The collector returns an unreachable block's memory to the allocator.
Free(o) ==
    /\ vm = "open"
    /\ \/ heap[o].st = "finalized"
       \/ heap[o].st = "live" /\ heap[o].mt = 0
    /\ ~Reachable(o)
    /\ heap' = [heap EXCEPT ![o].st = "freed"]
    /\ UNCHANGED <<vm, globals, typemt, regs, drops, push, frame>>

RECURSIVE CloseDrops(_, _, _)
\* lua_close: the __gc of every block that still has one to run, in turn.
CloseDrops(hp, dr, o) ==
    IF o = 0 THEN dr
    ELSE CloseDrops(hp,
                    IF hp[o].st = "live" /\ hp[o].mt > 0
                       THEN closure_destructor_wrapper(dr, hp[o].mt) ELSE dr,
                    o - 1)

\* The Lua context is dropped: lua_close.
Close ==
    /\ vm = "open"
    /\ frame.pc = "idle"
    /\ push.r = 0
    /\ vm' = "closed"
    /\ drops' = CloseDrops(heap, drops, Len(heap))
    /\ heap' = [o \in 1..Len(heap) |-> [heap[o] EXCEPT !.st = "freed"]]
    /\ globals' = [nm \in Names |-> LuaNil]
    /\ UNCHANGED <<typemt, regs, push, frame>>

\* The argument a script passes at position i of a call: of the parameter's
\* type, or (i = bad) of a type the parameter cannot be read from.
ArgValue(P, i, base, bad) ==
    IF i > Len(P) THEN LInt(base + i)
    ELSE IF P[i] = "i32"
            THEN (IF i = bad THEN LStr("hello") ELSE LInt(base + i))
            ELSE (IF i = bad THEN LuaNil ELSE LStr("hello"))

ArgCounts(k) == {0, 1, k - 1, k} \cup (k + 1)..(k + MaxExtra)

\* The script calls nm(args): the VM sets up the native call.
Call(nm, argc, base, bad) ==
    /\ vm = "open"
    /\ frame.pc = "idle"
    /\ push.r = 0
    /\ globals[nm].ty = "function"
    /\ globals[nm].nup = 1 => heap[globals[nm].o].env < MaxCalls
    /\ LET fn == globals[nm]
           z == CHOOSE c \in Closures : c.name = fn.s /\ Len(c.params) = fn.k
           T == functionN(z)
       IN  /\ argc \in ArgCounts(fn.k)
           /\ argc >= 0
           /\ bad \in {0, 1, fn.k}
           /\ bad <= argc
           /\ (bad # 0 \/ argc # fn.k) => base = 1
           /\ frame' = [NoFrame EXCEPT
                           !.pc = "entry", !.fn = fn, !.T = T,
                           !.stk = [i \in 1..argc |-> ArgValue(z.params, i, base, bad)]]
    /\ UNCHANGED <<vm, heap, globals, typemt, regs, drops, push>>

Decode(top) ==
    /\ vm = "open"
    /\ frame.pc = "entry"
    /\ frame' = wrapper_decode(frame, top)
    /\ UNCHANGED <<vm, heap, globals, typemt, regs, drops, push>>

Invoke ==
    /\ vm = "open"
    /\ frame.pc = "invoke"
    /\ LET o == frame.data
           res == wrapper_invoke(frame, IF o > 0 THEN heap[o].env ELSE 0)
       IN  /\ frame' = res.fr
           /\ heap' = IF o > 0 THEN [heap EXCEPT ![o].env = res.env] ELSE heap
    /\ UNCHANGED <<vm, globals, typemt, regs, drops, push>>

\* The panic of a push that failed leaves an extern "C" function: the process
\* is aborted, or the panic unwinds through the VM's frames to the host.
Encode(unwind) ==
    /\ vm = "open"
    /\ frame.pc = "encode"
    /\ frame' = wrapper_encode(frame)
    /\ unwind => frame'.pc = "aborted"
    /\ vm' = IF frame'.pc = "aborted"
                THEN (IF unwind THEN "panicked" ELSE "aborted") ELSE vm
    /\ UNCHANGED <<heap, globals, typemt, regs, drops, push>>

\* The script goes on with the call's results, or with the error raised.
Resume ==
    /\ vm = "open"
    /\ frame.pc \in {"returned", "raised"}
    /\ frame' = NoFrame
    /\ UNCHANGED <<vm, heap, globals, typemt, regs, drops, push>>

Next ==
    \/ \E nm \in Names, z \in Closures, kind \in PreKinds, crash \in BOOLEAN :
          Register(nm, z, kind, crash)
    \/ Bind
    \/ \E nm \in Names : Unset(nm)
    \/ \E o \in 1..Len(heap) : Finalize(o)
    \/ \E o \in 1..Len(heap) : Free(o)
    \/ Close
    \/ \E nm \in Names, argc \in 0..(MaxArity + MaxExtra), base \in 1..2,
          bad \in 0..MaxArity : Call(nm, argc, base, bad)
    \/ \E top \in StaleValues : Decode(top)
    \/ Invoke
    \/ \E unwind \in BOOLEAN : Encode(unwind)
    \/ Resume

Spec == Init /\ [][Next]_vars

(***************************************************************************)
(* The claims.                                                             *)
(***************************************************************************)
\* The wrapper has decoded (or failed to decode) the call's arguments.
Decoded == frame.pc \notin {"idle", "entry"}

\* The arguments the script passed.
CallArgs == SubSeq(frame.stk, 1, frame.argc)

\* The script passed exactly the closure's parameters, each of its type.
CorrectCall ==
    LET P == frame.T.marker
    IN  /\ frame.argc = Len(P)
        /\ \A j \in 1..Len(P) :
              \/ P[j] = "i32" /\ frame.stk[j].ty = "integer"
              \/ P[j] = "String" /\ frame.stk[j].ty = "string"

\* The host values the script's arguments denote.
HostArgs ==
    [j \in 1..frame.argc |->
        IF frame.stk[j].ty = "integer" THEN HInt(frame.stk[j].n)
        ELSE HStr(frame.stk[j].s)]

\* The Lua value a script sees for a host integer or string.
Scalar(v) == IF v.h = "i32" THEN LInt(v.n) ELSE LStr(v.s)

\* The message a script sees for a failure.
DisplayOf(e) ==
    IF e.h = "String" THEN e.s
    ELSE CASE e.n = 21 -> "21" [] OTHER -> "?"

RECURSIVE ExpectedValues(_)
\* The values a script sees for a closure's return value.
ExpectedValues(v) ==
    CASE v.h = "unit" -> <<>>
      [] v.h \in {"i32", "String"} -> <<Scalar(v)>>
      [] v.h = "tuple" -> [i \in 1..Len(v.es) |-> Scalar(v.es[i])]
      [] v.h = "Ok" -> ExpectedValues(v.v)
      [] v.h = "Err" -> <<LuaNil, LStr(DisplayOf(v.e))>>
      [] OTHER -> <<>>

\* C1: a call with exactly the closure's parameters, each of its type, is not
\* refused, and returns to the script the values of the closure called
\* directly on those arguments (and on the captured state it found).
C1_RoundTrip ==
    (Decoded /\ CorrectCall) =>
        /\ frame.pc # "raised"
        /\ frame.pc = "returned" =>
              Results(frame) =
                  ExpectedValues(ClosureBody(frame.T.function, frame.env0, HostArgs).ret)

C1_Witness ==
    /\ frame.pc = "returned"
    /\ frame.T = functionN(Sum(MaxArity))
    /\ CorrectCall
    /\ Results(frame) = <<LInt(445)>>

C3_ErrIsNilAndMessage ==
    (frame.pc \in {"returned", "raised", "aborted"} /\ frame.ret.h = "Err") =>
        /\ frame.pc = "returned"
        /\ frame.nb = 2
        /\ Results(frame) = <<LuaNil, LStr(DisplayOf(frame.ret.e))>>
        /\ DisplayOf(frame.ret.e) \in {"oops, problem", "21"}

C3_Witness ==
    /\ frame.pc = "returned"
    /\ frame.T = functionN(AlwaysFails)
    /\ Results(frame) = <<LuaNil, LStr("oops, problem")>>

\* C4: a closure returning a tuple of m elements makes the call return m
\* values, the tuple's elements from left to right, and the wrapper's return
\* value is m.
C4_TupleReturnsEach ==
    (frame.pc = "returned" /\ frame.ret.h = "tuple") =>
        LET es == frame.ret.es
        IN  /\ frame.nb = Len(es)
            /\ Len(frame.stk) = frame.argc + Len(es)
            /\ \A i \in 1..Len(es) : frame.stk[frame.argc + i] = Scalar(es[i])

C4_Witness ==
    /\ frame.pc = "returned"
    /\ frame.T = functionN(Values)
    /\ frame.nb = 3
    /\ Results(frame) = <<LInt(12), LInt(24), LInt(48)>>

\* C5 (as claimed): the teardown of a closure that needs one runs at most
\* once, and has run once when the VM has been closed.
C5_TeardownExactlyOnce ==
    \A r \in 1..Len(regs) :
        regs[r].drop =>
            /\ drops[r] <= 1
            /\ vm = "closed" => drops[r] = 1

\* The ffi calls of the push in progress, by kind.
LogOf(op) == {i \in 1..Len(push.log) : push.log[i].op = op}

\* C6: pushing a zero-sized closure allocates no userdata block and creates the
\* C closure without upvalue; pushing any other allocates one block, of the
\* closure's size, holding the closure, which is the C closure's one upvalue.
C6_BlockOnlyWhenSized ==
    push.r # 0 =>
        LET Z == push.T.function
            c == push.post[Len(push.post)]
            mine == {o \in 1..Len(heap) : heap[o].cs = push.r}
        IN  /\ c.ty = "function"
            /\ Z.size = 0 =>
                  /\ LogOf("lua_newuserdata") = {}
                  /\ mine = {}
                  /\ c.nup = 0
            /\ Z.size # 0 =>
                  /\ Cardinality(LogOf("lua_newuserdata")) = 1
                  /\ \A i \in LogOf("lua_newuserdata") : push.log[i].arg = Z.size
                  /\ mine = {c.o}
                  /\ heap[c.o].size = Z.size
                  /\ c.nup = 1

C6_Witness ==
    /\ push.r # 0
    /\ push.T = functionN(Sum(2))
    /\ push.pre = <<LStr("f")>>
    /\ LogOf("lua_newuserdata") = {}

\* C7: the captured state changes only when the closure runs, each run starts
\* from the state as it then is, and a run of `|| a += 1` leaves it one more.
C7_StatePersists ==
    [][\A o \in 1..Len(heap) :
          IF frame.pc = "invoke" /\ frame'.pc = "encode" /\ frame.data = o
             THEN /\ frame'.env0 = heap[o].env
                  /\ frame.T.function = Inc => heap'[o].env = heap[o].env + 1
             ELSE heap'[o].env = heap[o].env]_vars

C7_Witness ==
    /\ frame.pc = "returned"
    /\ frame.T = functionN(Inc)
    /\ frame.env0 = 1
    /\ heap[frame.fn.o].env = 2

\* C8: when decoding the arguments fails, the wrapper leaves the fixed message
\* on top of the stack and raises; it returns no number of values.
C8_DecodeFailureRaises ==
    (Decoded /\ ~lua_read_at_position(CallArgs, -frame.argc, frame.T.marker, LuaNil).ok) =>
        /\ frame.pc = "raised"
        /\ frame.stk[Len(frame.stk)] =
              LStr("wrong parameter types for callback function")
        /\ frame.nb = -1
        /\ frame.trace = <<"Entry", "DecodeArgs", "Fail">>

C8_Witness ==
    /\ frame.pc = "raised"
    /\ frame.T = functionN(Pair)
    /\ CallArgs = <<LInt(2), LuaNil>>

\* C9 (as claimed): a push attaches the finalizer of the closure's type to the
\* block holding that closure, before the C closure is pushed, if and only if
\* the closure needs drop.
C9_FinalizerOnOwnBlock ==
    push.r # 0 =>
        LET Z == push.T.function
            own == {i \in LogOf("lua_setmetatable") :
                       /\ push.log[i].arg = push.r
                       /\ push.log[i].tgt.ty = "userdata"
                       /\ heap[push.log[i].tgt.o].cs = push.r
                       /\ \A j \in LogOf("lua_pushcclosure") : i < j}
        IN  /\ Z.drop <=> own # {}
            /\ LogOf("lua_setmetatable") = own

\* C10 (as claimed): no invocation starts or is in flight on a captured state
\* whose teardown has run.
C10_NoCallAfterTeardown ==
    frame.pc \in {"entry", "invoke", "encode"} => drops[frame.fn.n] = 0

\* C11: the wrapper takes the captured state's address from upvalue 1 exactly
\* when the push allocated a block and gave the C closure one upvalue, and the
\* address is then that block's, which holds the closure; it takes the
\* dangling sentinel, reading no upvalue, exactly when the C closure was
\* created with no upvalue.
C11_SameSizeDecision ==
    Decoded =>
        LET c == frame.fn
            Z == regs[c.n]
        IN  /\ c.nup \in {0, 1}
            /\ c.nup = 1 <=> Z.size # 0
            /\ c.nup = 1 <=> frame.upread
            /\ frame.upread =>
                  /\ frame.data = c.o
                  /\ frame.data > 0
                  /\ heap[c.o].cs = c.n
            /\ c.nup = 0 <=> (frame.data = Dangling /\ ~frame.upread)

C11_Witness ==
    /\ frame.pc = "encode"
    /\ frame.T = functionN(PrintFoo)
    /\ frame.fn.nup = 1
    /\ frame.upread
    /\ frame.data = frame.fn.o

\* C12: the steps of a trampoline invocation are, in this order, Entry,
\* DecodeArgs and then either Fail, or Invoke, EncodeResult, Return: the call
\* has got as far as its state says, the closure has been invoked once in a
\* call whose decode succeeded and that has passed the invocation, and not at
\* all in any other.
C12_LinearOrder ==
    LET t == frame.trace
        full == <<"Entry", "DecodeArgs", "Invoke", "EncodeResult", "Return">>
        fail == <<"Entry", "DecodeArgs", "Fail">>
        invoked == Cardinality({i \in 1..Len(t) : t[i] = "Invoke"})
        decoded == lua_read_at_position(CallArgs, -frame.argc, frame.T.marker, LuaNil).ok
    IN  /\ frame.pc \in {"idle", "entry"} => t = <<>>
        /\ frame.pc = "invoke" => t = SubSeq(full, 1, 2) /\ decoded
        /\ frame.pc = "encode" => t = SubSeq(full, 1, 3) /\ decoded
        /\ frame.pc = "aborted" => t = SubSeq(full, 1, 4) /\ decoded
        /\ frame.pc = "returned" => t = full /\ decoded
        /\ frame.pc = "raised" => t = fail /\ ~decoded
        /\ invoked = IF frame.pc \in {"encode", "aborted", "returned"} THEN 1 ELSE 0
        /\ frame.pc \in {"encode", "aborted", "returned"} /\ frame.T.function = Inc
              => heap[frame.fn.o].env = frame.env0 + 1

C12_Witness ==
    /\ frame.pc = "returned"
    /\ frame.T = functionN(Inc)
    /\ frame.trace = <<"Entry", "DecodeArgs", "Invoke", "EncodeResult", "Return">>
    /\ heap[frame.fn.o].env = frame.env0 + 1

\* C13: when the wrapper returns normally, the number it returns is the number
\* of slots the encoding of the return value added to the stack; the call's
\* arguments lie unchanged under them, so that the topmost slots the VM takes
\* as the call's results are exactly the encoded values.
C13_ReturnsWhatItPushed ==
    [][(frame.pc = "encode" /\ frame'.pc = "returned") =>
          /\ Len(frame.stk) = frame.argc
          /\ frame'.nb >= 0
          /\ frame'.nb = Len(frame'.stk) - Len(frame.stk)
          /\ SubSeq(frame'.stk, 1, Len(frame.stk)) = frame.stk
          /\ Results(frame') = ExpectedValues(frame.ret)]_vars

C13_Witness ==
    /\ frame.pc = "returned"
    /\ frame.T = functionN(Pair)
    /\ frame.argc = 2
    /\ frame.nb = 2
    /\ frame.stk = <<LInt(2), LStr("hello"), LStr("hello"), LInt(3)>>

C15_OkIsTransparent ==
    (frame.pc \in {"encode", "returned", "aborted"} /\ frame.ret.h \in {"Ok", "Err"}) =>
        IF frame.ret.h = "Ok"
           THEN LET direct == PushValue(CallArgs, frame.ret.v)
                IN  /\ PushResult(CallArgs, frame.ret) = direct
                    /\ frame.pc = "returned" =>
                          /\ direct.ok
                          /\ frame.stk = direct.stack
                          /\ frame.nb = direct.size
                          /\ Results(frame) = ExpectedValues(frame.ret.v)
                    /\ frame.pc = "aborted" => ~direct.ok
           ELSE /\ PushResult(CallArgs, frame.ret).ok
                /\ frame.pc # "aborted"

C15_Witness ==
    /\ frame.pc = "returned"
    /\ frame.T = functionN(DivMod)
    /\ frame.ret = HOk(HTuple(<<HInt(1), HInt(1)>>))
    /\ frame.nb = 2
    /\ Results(frame) = <<LInt(1), LInt(1)>>

\* C16 (as claimed): whatever the closure's size and whether or not it needs
\* drop, a push leaves the stack one slot taller, the new C closure on top and
\* the values that were on the stack under it, each as it was and with the
\* metatable it had.
C16_PushFrameEffect ==
    push.r # 0 =>
        LET n == Len(push.pre)
        IN  /\ push.size = 1
            /\ Len(push.post) = n + 1
            /\ push.post[n + 1].ty = "function"
            /\ push.post[n + 1].n = push.r
            /\ SubSeq(push.post, 1, n) = push.pre
            /\ \A i \in 1..n :
                  MetatableOf(push.pre[i], heap, typemt) = push.premt[i]

\* C17 (as claimed): the decode is given the index of the call's first
\* argument, and the slots it reads are slots of the call's arguments, none of
\* them read twice, whatever the number of arguments passed.
C17_DecodeReadsOnlyArguments ==
    Decoded =>
        LET rs == frame.reads
        IN  /\ frame.start = -frame.argc
            /\ Len(frame.T.marker) > 0 => AbsIndex(CallArgs, frame.start) = 1
            /\ \A i \in 1..Len(rs) : rs[i] \in 1..frame.argc
            /\ \A i, j \in 1..Len(rs) : i # j => rs[i] # rs[j]

====
